---------------------------- MODULE Spec2Model ----------------------------
(***************************************************************************)
(* Model of app/api/scrape/route.ts: the POST handler of the scrape route  *)
(* and the lazily created browser it shares between requests.              *)
(*                                                                         *)
(* Each request is a process whose position (pc) is the await it is        *)
(* suspended on.  One action resolves one await and runs the synchronous   *)
(* code that follows it, up to and including the call that starts the next *)
(* await.  The browser, JSDOM and Readability are external: their          *)
(* outcomes (a value or a thrown error) are chosen nondeterministically.   *)
(***************************************************************************)
EXTENDS Integers, Sequences, FiniteSets, TLC

\* Number of POST requests the server receives.
NumReqs == 2

Reqs == 1..NumReqs

\* The most requests a page issues while it loads and settles.
MaxFetches == 3

VARIABLES
  sagashi_browser,  \* globalThis.__sagashi_browser: Undefined or a promise
  promises,         \* promises[i]: state of the promise of the i-th chromium.launch
  pc,               \* pc[r]: the await request r is suspended on
  body,             \* body[r]: the parsed request body
  local,            \* local[r]: the handler's local variables
  resp,             \* resp[r]: the HTTP response returned by POST
  openContexts,     \* browser contexts that are open
  openPages,        \* pages that are open
  routed,           \* contexts with the interception rule installed
  pageUrl,          \* pageUrl[p]: what page.url() returns for page p
  trace,            \* trace[r]: the capability calls r has made, in order
  network           \* network[p]: the requests page p has issued, in order

vars == <<sagashi_browser, promises, pc, body, local, resp,
          openContexts, openPages, routed, pageUrl, trace, network>>

-----------------------------------------------------------------------------
(* Values *)

\* A string that may be a URL is <<>> (the empty string) or
\* <<scheme, host, path>>; scheme "" makes it a relative reference.
EmptyStr == <<>>
AboutBlank == <<"about", "", 0>>

IsAbsolute(u) == Len(u) = 3 /\ u[1] # ""

\* A validation that accepts every non-empty url.
URLThrowsNever(u) == FALSE

\* new URL(u) throws unless u parses as an absolute URL.
URLThrows(u) == ~IsAbsolute(u)

\* JS truthiness of a string.
Truthy(s) == s # EmptyStr

\* A promise is named by its position in promises; 0 names no promise.
Undefined == 0

-----------------------------------------------------------------------------
(* Strings: a text is a sequence of one-character strings *)

Range(s) == {s[i] : i \in 1..Len(s)}

\* The indices of s that satisfy P, in increasing order.
Indices(s, P(_)) == SelectSeq([i \in 1..Len(s) |-> i], P)

IsSpace(c) == c \in {" ", "\n", "\t"}

\* String.prototype.trim
Trim(s) ==
  LET ink == Indices(s, LAMBDA i : ~IsSpace(s[i]))
  IN IF ink = <<>> THEN EmptyStr ELSE SubSeq(s, ink[1], ink[Len(ink)])

\* The pieces of s around its separators: separator k covers from[k]..to[k].
Pieces(s, from, to) ==
  [k \in 1..(Len(from) + 1) |->
     SubSeq(s, IF k = 1 THEN 1 ELSE to[k - 1] + 1,
               IF k = Len(from) + 1 THEN Len(s) ELSE from[k] - 1)]

\* s.split('\n')
SplitLines(s) ==
  LET at == Indices(s, LAMBDA i : s[i] = "\n")
  IN Pieces(s, at, at)

\* s.split(/\s+/): a separator is a maximal run of whitespace
SplitSpaces(s) ==
  LET from == Indices(s, LAMBDA i : IsSpace(s[i]) /\ (i = 1 \/ ~IsSpace(s[i - 1])))
      to == Indices(s, LAMBDA i : IsSpace(s[i]) /\ (i = Len(s) \/ ~IsSpace(s[i + 1])))
  IN Pieces(s, from, to)

\* lines.join(sep)
RECURSIVE Join(_, _)
Join(lines, sep) ==
  IF lines = <<>> THEN EmptyStr
  ELSE IF Len(lines) = 1 THEN lines[1]
  ELSE lines[1] \o sep \o Join(Tail(lines), sep)

\* arr.slice(0, n)
Slice0(arr, n) == SubSeq(arr, 1, IF n < Len(arr) THEN n ELSE Len(arr))

\* Array.from(new Set(arr)): the distinct elements in first-insertion order
RECURSIVE SetOrder(_)
SetOrder(arr) ==
  IF Len(arr) <= 1 THEN arr
  ELSE LET h == Len(arr) \div 2
           a == SetOrder(SubSeq(arr, 1, h))
           b == SetOrder(SubSeq(arr, h + 1, Len(arr)))
           ra == Range(a)
       IN a \o SelectSeq(b, LAMBDA x : x \notin ra)

-----------------------------------------------------------------------------
(* The rendered document, as the DOM queries of the handler see it:        *)
(*   title      text of the title element (EmptyStr: none, or empty)       *)
(*   article    what Readability.parse() returns; present = FALSE is null  *)
(*   scripts    textContent of each script[type="application/ld+json"]     *)
(*   anchors    href attribute of each a[href]                             *)
(*   headings   [tag, text] of each h1, h2, h3                             *)
(*   imgs       [src, alt] attributes of each img (alt "" when absent)     *)
(*   bodyText   doc.body.textContent                                       *)

NoArticle == [present |-> FALSE, title |-> EmptyStr, textContent |-> EmptyStr]

\* A JavaScript value: t is its type, v its printed form.
JSNull == [t |-> "null", v |-> ""]
JSString(text) == [t |-> "string", v |-> text]

\* Boolean(x)
JSTruthy(x) ==
  ~ \/ x.t = "null"
    \/ x.t = "boolean" /\ x.v = "false"
    \/ x.t = "number" /\ x.v = "0"
    \/ x.t = "string" /\ x.v = ""

\* The script texts of the model for which JSON.parse returns a value;
\* it throws a SyntaxError for every other text ("" and " " among them).
JSONTexts == {"null", "false", "true", "0", "1", "\"\"", "\"x\"", "[]", "{}"}

\* JSON.parse(text), for text \in JSONTexts
JSONParse(text) ==
  CASE text = "null" -> JSNull
    [] text \in {"false", "true"} -> [t |-> "boolean", v |-> text]
    [] text \in {"0", "1"} -> [t |-> "number", v |-> text]
    [] text = "\"\"" -> JSString("")
    [] text = "\"x\"" -> JSString("x")
    [] OTHER -> [t |-> "object", v |-> text]

\* element.href / element.src: the attribute resolved against the document
\* URL; an attribute that cannot be resolved is returned as it is.
Hierarchical(base) == IsAbsolute(base) /\ base[2] # ""

Resolve(attr, base) ==
  IF IsAbsolute(attr) THEN attr
  ELSE IF ~Hierarchical(base) THEN attr
  ELSE IF attr = EmptyStr THEN base
  ELSE <<base[1], base[2], attr[3]>>

MapSeq(arr, f(_)) == [k \in 1..Len(arr) |-> f(arr[k])]

\* lines 77-82
RawTextContent(article) ==
  IF article.present /\ Truthy(article.textContent)
  THEN article.textContent ELSE EmptyStr

\* A normalization that keeps the lines that are empty after trimming.
NormalizeKeepsEmptyLines(raw) ==
  Join(MapSeq(SplitLines(raw), Trim), <<"\n", "\n">>)

\* lines 78-82: split('\n'), trim each line, drop the empty ones, join('\n\n')
Normalize(raw) ==
  Join(SelectSeq(MapSeq(SplitLines(raw), Trim), LAMBDA line : Len(line) > 0),
       <<"\n", "\n">>)

CleanedTextContent(article) == Normalize(RawTextContent(article))

\* line 90
Title(doc) ==
  Trim(IF Truthy(doc.title) THEN doc.title
       ELSE IF doc.article.present /\ Truthy(doc.article.title) THEN doc.article.title
       ELSE EmptyStr)

\* A callback whose catch clause drops the script instead of keeping its text.
ParseLdDropInvalid(textContent) ==
  IF textContent \in JSONTexts THEN JSONParse(textContent) ELSE JSNull

\* lines 96-102: the callback of map, then filter(Boolean)
ParseLd(textContent) ==
  IF textContent \in JSONTexts THEN JSONParse(textContent)
  ELSE IF textContent # "" THEN JSString(textContent)
  ELSE JSNull

JsonLdKeep(x) == JSTruthy(x)

JsonLd(doc) == SelectSeq(MapSeq(doc.scripts, ParseLd), JsonLdKeep)

\* lines 105-108
LinkCap == 2000

\* Links taken only when Readability found an article.
LinksOfArticleOnly(doc, base) ==
  IF doc.article.present
  THEN SelectSeq(MapSeq(doc.anchors, LAMBDA a : Resolve(a, base)), Truthy)
  ELSE <<>>

Links(doc, base) ==
  SelectSeq(MapSeq(doc.anchors, LAMBDA a : Resolve(a, base)), Truthy)

\* Links capped without removing duplicates.
UniqueLinksKeepsDuplicates(links) == Slice0(links, LinkCap)

UniqueLinks(links) == Slice0(SetOrder(links), LinkCap)

\* lines 110-113
Headings(doc) == MapSeq(doc.headings, LAMBDA h : [tag |-> h.tag, text |-> Trim(h.text)])

\* lines 115-117
ImageCap == 500

Images(doc, base) ==
  Slice0(MapSeq(doc.imgs, LAMBDA i : [src |-> Resolve(i.src, base), alt |-> i.alt]),
         ImageCap)

\* lines 119-121
\* A main text that never falls back to the body's text.
MainTextNoFallback(doc) == Trim(CleanedTextContent(doc.article))

\* line 119: (cleanedTextContent || doc.body?.textContent || "").trim()
MainText(doc) ==
  LET cleaned == CleanedTextContent(doc.article)
  IN Trim(IF Truthy(cleaned) THEN cleaned ELSE doc.bodyText)

WordCount(mainText) ==
  IF Truthy(mainText) THEN Len(SelectSeq(SplitSpaces(mainText), Truthy)) ELSE 0

WordsPerMinute == 200

\* Rounding down instead of up.
CeilRoundsDown(a, b) == a \div b

\* Math.ceil(a / b) for integers a >= 0, b > 0
Ceil(a, b) == IF a % b = 0 THEN a \div b ELSE a \div b + 1

ReadingTimeMinutes(wordCount) ==
  LET c == Ceil(wordCount, WordsPerMinute) IN IF c > 1 THEN c ELSE 1

\* lines 123-146: the result object, before the optional screenshot
Result(url, finalUrl, status, doc) ==
  [url |-> url,
   finalUrl |-> finalUrl,
   status |-> status,
   title |-> Title(doc),
   jsonLd |-> JsonLd(doc),
   article |-> IF doc.article.present
               THEN [present |-> TRUE, title |-> doc.article.title,
                     textContent |-> CleanedTextContent(doc.article)]
               ELSE NoArticle,
   links |-> UniqueLinks(Links(doc, finalUrl)),
   headings |-> Headings(doc),
   images |-> Images(doc, finalUrl),
   wordCount |-> WordCount(MainText(doc)),
   readingTimeMinutes |-> ReadingTimeMinutes(WordCount(MainText(doc))),
   screenshot |-> "undefined",
   screenshotMime |-> "undefined"]

-----------------------------------------------------------------------------
(* Inputs *)

UrlA == <<"https", "a.test", 1>>
UrlB == <<"https", "b.test", 2>>
RelativeRef == <<"", "", 1>>

\* Where a navigation of url may end up after a redirect.
Redirected(url) == <<url[1], "redirect.test", url[3]>>

\* Status codes of the navigation's main response.
Statuses == {200, 404}

\* A request body: hasUrl = FALSE when body.url is undefined; screenshot is
\* the truthiness of options.screenshot; blockResources is the value of
\* options.blockResources, "undefined" when the option is not given.
Bodies ==
  {b \in [hasUrl : BOOLEAN, url : {EmptyStr, RelativeRef, UrlA},
          screenshot : BOOLEAN,
          blockResources : {"undefined", "true", "false"}] :
     ~b.hasUrl => b.url = EmptyStr}

ArticleDoc ==
  [title |-> <<"T">>,
   article |-> [present |-> TRUE, title |-> <<"A">>,
                textContent |-> <<" ", "a", "\n", "\n", "b", " ">>],
   scripts |-> <<"{}", "{bad">>,
   anchors |-> <<<<"", "", 1>>, UrlA, <<"", "", 2>>>>,
   headings |-> <<[tag |-> "H1", text |-> <<" ", "h">>]>>,
   imgs |-> <<[src |-> <<"", "", 3>>, alt |-> "pic"]>>,
   bodyText |-> <<"a", " ", "b", " ", "c">>]

PlainDoc ==
  [title |-> EmptyStr,
   article |-> NoArticle,
   scripts |-> <<>>,
   anchors |-> <<UrlB>>,
   headings |-> <<>>,
   imgs |-> <<>>,
   bodyText |-> <<"x">>]

EmptyDoc ==
  [title |-> EmptyStr, article |-> NoArticle, scripts |-> <<>>, anchors |-> <<>>,
   headings |-> <<>>, imgs |-> <<>>, bodyText |-> EmptyStr]

\* The documents a page may hold in the request-level specification.
PageDocs == {ArticleDoc, PlainDoc}

-----------------------------------------------------------------------------
(* State *)

NoBody == [hasUrl |-> FALSE, url |-> EmptyStr, screenshot |-> FALSE,
           blockResources |-> "undefined"]

\* What line 60 assigns to response: null, or a Response with a status.
NullResponse == [isNull |-> TRUE, status |-> -1]
ResponseOf(st) == [isNull |-> FALSE, status |-> st]

\* awaited is the promise getBrowser returned; navThrew records that
\* page.goto rejected; status is -1 before line 66 has run.
NoLocals ==
  [awaited |-> 0, browser |-> 0, context |-> 0, page |-> 0,
   response |-> NullResponse, navThrew |-> FALSE, finalUrl |-> EmptyStr,
   status |-> -1,
   html |-> EmptyDoc, result |-> Result(EmptyStr, EmptyStr, -1, EmptyDoc)]

NoResp == [code |-> 0, error |-> "", result |-> Result(EmptyStr, EmptyStr, -1, EmptyDoc)]

TypeOK ==
  /\ sagashi_browser \in 0..Len(promises)
  /\ \A i \in 1..Len(promises) : promises[i] \in {"pending", "fulfilled", "rejected"}
  /\ pc \in [Reqs -> {"idle", "json", "getBrowser", "newContext", "route", "newPage",
                      "goto", "waitForTimeout", "content", "screenshot",
                      "pageClose", "contextClose", "done"}]
  /\ body \in [Reqs -> Bodies \cup {NoBody}]
  /\ \A r \in Reqs : resp[r].code \in {0, 200, 400, 500}
  /\ openContexts \subseteq Reqs
  /\ openPages \subseteq Reqs
  /\ routed \subseteq Reqs
  /\ \A p \in Reqs : Len(network[p]) <= MaxFetches

Init ==
  /\ sagashi_browser = Undefined
  /\ promises = <<>>
  /\ pc = [r \in Reqs |-> "idle"]
  /\ body = [r \in Reqs |-> NoBody]
  /\ local = [r \in Reqs |-> NoLocals]
  /\ resp = [r \in Reqs |-> NoResp]
  /\ openContexts = {}
  /\ openPages = {}
  /\ routed = {}
  /\ pageUrl = [p \in Reqs |-> EmptyStr]
  /\ trace = [r \in Reqs |-> <<>>]
  /\ network = [p \in Reqs |-> <<>>]

-----------------------------------------------------------------------------
(* Actions *)

Goes(r, to) == pc' = [pc EXCEPT ![r] = to]

Calls(r, capability) == trace' = [trace EXCEPT ![r] = Append(@, capability)]

Returns(r, response) ==
  /\ resp' = [resp EXCEPT ![r] = response]
  /\ Goes(r, "done")

\* A catch clause that rethrows: POST ends without a response.
CatchRethrows(r, message) == Goes(r, "done") /\ UNCHANGED resp

\* lines 159-162: the catch clause of POST
Catch(r, message) ==
  Returns(r, [NoResp EXCEPT !.code = 500, !.error = message])

\* A getBrowser that launches on every call without keeping the promise.
GetBrowserNoStore(g, ps) ==
  [launch |-> TRUE, global |-> g, ret |-> Len(ps) + 1]

\* A getBrowser that launches again when the promise it kept was rejected.
GetBrowserRelaunch(g, ps) ==
  IF g = Undefined \/ ps[g] = "rejected"
  THEN [launch |-> TRUE, global |-> Len(ps) + 1, ret |-> Len(ps) + 1]
  ELSE [launch |-> FALSE, global |-> g, ret |-> g]

\* lines 13-21: getBrowser, called with the global g and the launch promises
\* ps; launch is true when chromium.launch is called, global is the value
\* the global has afterwards and ret the promise that is returned.
GetBrowser(g, ps) ==
  IF g = Undefined
  THEN [launch |-> TRUE, global |-> Len(ps) + 1, ret |-> Len(ps) + 1]
  ELSE [launch |-> FALSE, global |-> g, ret |-> g]

\* POST is called with a request whose body parses to b (line 27 awaits).
Receive(r, bodies) ==
  /\ pc[r] = "idle"
  /\ \E b \in bodies : body' = [body EXCEPT ![r] = b]
  /\ Goes(r, "json")
  /\ UNCHANGED <<network, sagashi_browser, promises, local, resp, openContexts, openPages,
                 routed, pageUrl, trace>>

\* lines 28-38: validation, then the call of getBrowser
Validate(r) ==
  /\ pc[r] = "json"
  /\ IF ~body[r].hasUrl \/ ~Truthy(body[r].url)
     THEN /\ Returns(r, [NoResp EXCEPT !.code = 400,
                                       !.error = "Missing url in request body"])
          /\ UNCHANGED <<sagashi_browser, promises, local, trace>>
     ELSE IF URLThrows(body[r].url)
     THEN /\ Returns(r, [NoResp EXCEPT !.code = 400, !.error = "Invalid URL"])
          /\ UNCHANGED <<sagashi_browser, promises, local, trace>>
     ELSE LET g == GetBrowser(sagashi_browser, promises)
          IN /\ sagashi_browser' = g.global
             /\ promises' = IF g.launch THEN Append(promises, "pending") ELSE promises
             /\ local' = [local EXCEPT ![r].awaited = g.ret]
             /\ Calls(r, "getBrowser")
             /\ Goes(r, "getBrowser")
             /\ UNCHANGED resp
  /\ UNCHANGED <<network, body, openContexts, openPages, routed, pageUrl>>

\* chromium.launch settles: the browser process started, or failed to.
LaunchSettles(i) ==
  /\ promises[i] = "pending"
  /\ \E outcome \in {"fulfilled", "rejected"} :
       promises' = [promises EXCEPT ![i] = outcome]
  /\ UNCHANGED <<network, sagashi_browser, pc, body, local, resp, openContexts, openPages,
                 routed, pageUrl, trace>>

\* lines 38-39: the await of getBrowser() resumes; browser.newContext is called
AwaitBrowser(r) ==
  /\ pc[r] = "getBrowser"
  /\ promises[local[r].awaited] # "pending"
  /\ IF promises[local[r].awaited] = "fulfilled"
     THEN /\ local' = [local EXCEPT ![r].browser = local[r].awaited]
          /\ Calls(r, "newContext")
          /\ Goes(r, "newContext")
          /\ UNCHANGED resp
     ELSE /\ Catch(r, "launch failed")
          /\ UNCHANGED <<local, trace>>
  /\ UNCHANGED <<network, sagashi_browser, promises, body, openContexts, openPages, routed,
                 pageUrl>>

\* One context and one page handed to every request.
NewHandleShared(r) == 1

\* lines 39, 56: browser.newContext() and context.newPage() create a new
\* object on each call; a request makes each call once, so the object is
\* named after the request.
NewHandle(r) == r

\* line 47: opts.blockResources !== false
BlockResources(b) == b.blockResources # "false"

\* lines 39-56: newContext settles; context.route or context.newPage is called
NewContext(r) ==
  /\ pc[r] = "newContext"
  /\ \/ /\ openContexts' = openContexts \cup {NewHandle(r)}
        /\ local' = [local EXCEPT ![r].context = NewHandle(r)]
        /\ IF BlockResources(body[r])
           THEN Calls(r, "route") /\ Goes(r, "route")
           ELSE Calls(r, "newPage") /\ Goes(r, "newPage")
        /\ UNCHANGED resp
     \/ /\ Catch(r, "newContext failed")
        /\ UNCHANGED <<openContexts, local, trace>>
  /\ UNCHANGED <<network, sagashi_browser, promises, body, openPages, routed, pageUrl>>

\* lines 48-56: context.route settles; context.newPage is called
Route(r) ==
  /\ pc[r] = "route"
  /\ \/ /\ routed' = routed \cup {local[r].context}
        /\ Calls(r, "newPage")
        /\ Goes(r, "newPage")
        /\ UNCHANGED resp
     \/ /\ Catch(r, "route failed")
        /\ UNCHANGED <<routed, trace>>
  /\ UNCHANGED <<network, sagashi_browser, promises, body, local, openContexts, openPages,
                 pageUrl>>

\* lines 56-60: newPage settles; page.goto is called
NewPage(r) ==
  /\ pc[r] = "newPage"
  /\ \/ /\ openPages' = openPages \cup {NewHandle(r)}
        /\ pageUrl' = [pageUrl EXCEPT ![NewHandle(r)] = AboutBlank]
        /\ local' = [local EXCEPT ![r].page = NewHandle(r)]
        /\ Calls(r, "goto")
        /\ Goes(r, "goto")
        /\ UNCHANGED resp
     \/ /\ Catch(r, "newPage failed")
        /\ UNCHANGED <<openPages, pageUrl, local, trace>>
  /\ UNCHANGED <<network, sagashi_browser, promises, body, openContexts, routed>>

\* What request.resourceType() may return for the requests of a page.
ResourceTypes == {"document", "script", "xhr", "image", "media", "font", "stylesheet"}

\* A handler that aborts scripts as well.
RouteHandlerAlsoScript(t) ==
  IF t \in {"image", "media", "font", "stylesheet", "script"}
  THEN <<"abort">> ELSE <<"continue">>

\* lines 48-53: the calls the handler makes on the route of a request of
\* resource type t
RouteHandler(t) ==
  IF t \in {"image", "media", "font", "stylesheet"}
  THEN <<"abort">> ELSE <<"continue">>

\* The page of r issues a request while it navigates or settles; the handler
\* of line 48 runs if the rule is installed on the page's context, otherwise
\* the request goes out untouched.
PageRequest(r) ==
  /\ pc[r] \in {"goto", "waitForTimeout"}
  /\ Len(network[local[r].page]) < MaxFetches
  /\ \E t \in ResourceTypes :
       LET intercepted == local[r].context \in routed
       IN network' = [network EXCEPT ![local[r].page] =
                        Append(@, [type |-> t, intercepted |-> intercepted,
                                   calls |-> IF intercepted THEN RouteHandler(t)
                                             ELSE <<>>])]
  /\ UNCHANGED <<sagashi_browser, promises, pc, body, local, resp, openContexts,
                 openPages, routed, pageUrl, trace>>

\* A navigation whose failure skips the settle wait.
GotoSkipsWaitOnFailure(r) ==
  /\ pc[r] = "goto"
  /\ \/ /\ \E st \in Statuses, u \in {body[r].url, Redirected(body[r].url)} :
             /\ pageUrl' = [pageUrl EXCEPT ![local[r].page] = u]
             /\ local' = [local EXCEPT ![r].response = ResponseOf(st)]
        /\ Calls(r, "waitForTimeout")
        /\ Goes(r, "waitForTimeout")
     \/ /\ \E u \in {pageUrl[local[r].page], body[r].url, Redirected(body[r].url)} :
             /\ pageUrl' = [pageUrl EXCEPT ![local[r].page] = u]
             /\ local' = [local EXCEPT ![r].response = NullResponse,
                                       ![r].navThrew = TRUE,
                                       ![r].finalUrl = u, ![r].status = 0]
        /\ Calls(r, "content")
        /\ Goes(r, "content")
  /\ UNCHANGED <<network, sagashi_browser, promises, body, resp, openContexts,
                 openPages, routed>>

\* lines 60-63: page.goto settles, a rejection is caught and becomes null;
\* page.waitForTimeout is called.  A navigation that fails leaves the page
\* where it was or (a timeout after the document was committed) on the
\* requested or redirected URL.
Goto(r) ==
  /\ pc[r] = "goto"
  /\ \/ \E st \in Statuses, u \in {body[r].url, Redirected(body[r].url)} :
          /\ pageUrl' = [pageUrl EXCEPT ![local[r].page] = u]
          /\ local' = [local EXCEPT ![r].response = ResponseOf(st)]
     \/ \E u \in {pageUrl[local[r].page], body[r].url, Redirected(body[r].url)} :
          /\ pageUrl' = [pageUrl EXCEPT ![local[r].page] = u]
          /\ local' = [local EXCEPT ![r].response = NullResponse, ![r].navThrew = TRUE]
  /\ Calls(r, "waitForTimeout")
  /\ Goes(r, "waitForTimeout")
  /\ UNCHANGED <<network, sagashi_browser, promises, body, resp, openContexts, openPages,
                 routed>>

\* A status read without the default for a null response.
StatusOfNoDefault(response) == response.status

\* line 66: response?.status() ?? 0
StatusOf(response) == IF response.isNull THEN 0 ELSE response.status

\* lines 63-67: waitForTimeout settles; page.url() and the status are read,
\* page.content is called
WaitForTimeout(r) ==
  /\ pc[r] = "waitForTimeout"
  /\ \/ /\ local' = [local EXCEPT ![r].finalUrl = pageUrl[local[r].page],
                                  ![r].status = StatusOf(local[r].response)]
        /\ Calls(r, "content")
        /\ Goes(r, "content")
        /\ UNCHANGED resp
     \/ /\ Catch(r, "waitForTimeout failed")
        /\ UNCHANGED <<local, trace>>
  /\ UNCHANGED <<network, sagashi_browser, promises, body, openContexts, openPages, routed,
                 pageUrl>>

\* lines 148-155 after a successful capture or without one
WithScreenshot(result) ==
  [result EXCEPT !.screenshot = "base64", !.screenshotMime = "image/png"]

\* lines 67-155: page.content settles (or rejects); the document is parsed
\* and the result built (or JSDOM or Readability throws); page.screenshot is
\* called if options.screenshot, else page.close
Content(r, docs) ==
  /\ pc[r] = "content"
  /\ \/ \E d \in docs :
          /\ local' = [local EXCEPT
                         ![r].html = d,
                         ![r].result = Result(body[r].url, local[r].finalUrl,
                                              local[r].status, d)]
          /\ IF body[r].screenshot
             THEN Calls(r, "screenshot") /\ Goes(r, "screenshot")
             ELSE Calls(r, "pageClose") /\ Goes(r, "pageClose")
          /\ UNCHANGED resp
     \/ /\ Catch(r, "content failed")
        /\ UNCHANGED <<local, trace>>
     \/ /\ Catch(r, "parse failed")
        /\ UNCHANGED <<local, trace>>
  /\ UNCHANGED <<network, sagashi_browser, promises, body, openContexts, openPages, routed,
                 pageUrl>>

\* lines 150-155: page.screenshot settles; page.close is called
Screenshot(r) ==
  /\ pc[r] = "screenshot"
  /\ \/ /\ local' = [local EXCEPT ![r].result = WithScreenshot(@)]
        /\ Calls(r, "pageClose")
        /\ Goes(r, "pageClose")
        /\ UNCHANGED resp
     \/ /\ Catch(r, "screenshot failed")
        /\ UNCHANGED <<local, trace>>
  /\ UNCHANGED <<network, sagashi_browser, promises, body, openContexts, openPages, routed,
                 pageUrl>>

\* lines 155-156: page.close settles; context.close is called
PageClose(r) ==
  /\ pc[r] = "pageClose"
  /\ \/ /\ openPages' = openPages \ {local[r].page}
        /\ Calls(r, "contextClose")
        /\ Goes(r, "contextClose")
        /\ UNCHANGED resp
     \/ /\ Catch(r, "page.close failed")
        /\ UNCHANGED <<openPages, trace>>
  /\ UNCHANGED <<network, sagashi_browser, promises, body, local, openContexts, routed,
                 pageUrl>>

\* lines 156-158: context.close settles (closing a context closes its
\* pages); the result is returned
ContextClose(r) ==
  /\ pc[r] = "contextClose"
  /\ \/ /\ openContexts' = openContexts \ {local[r].context}
        /\ openPages' = openPages \ {local[r].context}
        /\ Returns(r, [NoResp EXCEPT !.code = 200, !.result = local[r].result])
     \/ /\ Catch(r, "context.close failed")
        /\ UNCHANGED <<openContexts, openPages>>
  /\ UNCHANGED <<network, sagashi_browser, promises, body, local, routed, pageUrl, trace>>

Next ==
  \/ \E r \in Reqs : Receive(r, Bodies)
  \/ \E r \in Reqs : Validate(r)
  \/ \E i \in 1..Len(promises) : LaunchSettles(i)
  \/ \E r \in Reqs : AwaitBrowser(r)
  \/ \E r \in Reqs : NewContext(r)
  \/ \E r \in Reqs : Route(r)
  \/ \E r \in Reqs : NewPage(r)
  \/ \E r \in Reqs : Goto(r)
  \/ \E r \in Reqs : WaitForTimeout(r)
  \/ \E r \in Reqs : Content(r, PageDocs)
  \/ \E r \in Reqs : Screenshot(r)
  \/ \E r \in Reqs : PageClose(r)
  \/ \E r \in Reqs : ContextClose(r)

Spec == Init /\ [][Next]_vars

-----------------------------------------------------------------------------
(* The extraction alone: one request suspended on page.content(), whose    *)
(* page holds any document of ExtractDocs.                                 *)

\* Bounds of the documents: numbers of scripts, anchors and images, length
\* of the article's text, number of words of the body text.
MaxScripts == 2
MaxAnchors == 3
MaxImgs == 2
MaxText == 4
MaxWords == 420

Seqs(S, n) == UNION {[1..k -> S] : k \in 0..n}

ScriptTexts == JSONTexts \cup {"", " ", "{bad"}

Hrefs == {EmptyStr, <<"", "", 1>>, UrlA, <<"https", "b.test", 1>>}

Img(k) == [src |-> <<"", "", k>>, alt |-> IF k = 1 THEN "pic" ELSE ""]

BaseDoc ==
  [title |-> <<"T", " ">>,
   article |-> NoArticle,
   scripts |-> <<>>,
   anchors |-> <<UrlB>>,
   headings |-> <<[tag |-> "H1", text |-> <<" ", "h">>]>>,
   imgs |-> <<Img(1)>>,
   bodyText |-> <<"x", " ", "y">>]

\* n words separated by single spaces
Words(n) == [i \in 1..(2 * n - 1) |-> IF i % 2 = 1 THEN "w" ELSE " "]

\* n distinct hrefs, alternately relative and absolute
FillerHref(i) == IF i % 2 = 1 THEN <<"", "", 100 + i>> ELSE <<"https", "a.test", 100 + i>>
Filler(n) == [i \in 1..n |-> FillerHref(i)]

\* n images, every second one the same
FillerImgs(n) == [i \in 1..n |-> Img(IF i % 2 = 0 THEN 2 ELSE i)]

ScriptDocs == {[BaseDoc EXCEPT !.scripts = ss] : ss \in Seqs(ScriptTexts, MaxScripts)}

AnchorDocs == {[BaseDoc EXCEPT !.anchors = a] : a \in Seqs(Hrefs, MaxAnchors)}

ImgDocs ==
  {[BaseDoc EXCEPT !.imgs = i] : i \in Seqs({Img(1), Img(2)}, MaxImgs)}
  \cup {[BaseDoc EXCEPT !.imgs = FillerImgs(n)] : n \in {ImageCap - 1, ImageCap}}

\* Documents around the caps: with and without repeated hrefs before and
\* after the LinkCap-th distinct one, and one image more than ImageCap.
CapDocs ==
  {[BaseDoc EXCEPT !.anchors = ht[1] \o Filler(n) \o ht[2],
                   !.imgs = FillerImgs(ImageCap + 1)] :
     n \in {LinkCap - 1, LinkCap, LinkCap + 1},
     ht \in {<<<<>>, <<>>>>,
             <<<<FillerHref(1), FillerHref(1)>>, <<UrlB>>>>,
             <<<<>>, <<FillerHref(2)>>>>}}

TextDocs ==
  {[BaseDoc EXCEPT !.title = t, !.article = a, !.bodyText = b] :
     t \in {EmptyStr, <<" ">>, <<"T", " ">>},
     a \in {NoArticle} \cup
           [present : {TRUE}, title : {EmptyStr, <<"A">>},
            textContent : Seqs({"a", " ", "\n"}, MaxText)],
     b \in {EmptyStr, <<" ">>, <<"x", " ", "y">>}}

WordDocs == {[BaseDoc EXCEPT !.bodyText = Words(n)] : n \in 0..MaxWords}

ExtractDocs == ScriptDocs \cup AnchorDocs \cup ImgDocs \cup CapDocs \cup TextDocs \cup WordDocs

\* The state of a request that has reached line 67 for UrlA, after a
\* navigation that succeeded or one that failed before committing.
InitExtract ==
  /\ sagashi_browser = 1
  /\ promises = <<"fulfilled">>
  /\ pc = [r \in Reqs |-> IF r = 1 THEN "content" ELSE "idle"]
  /\ body = [r \in Reqs |-> IF r = 1
                            THEN [hasUrl |-> TRUE, url |-> UrlA, screenshot |-> FALSE,
                                  blockResources |-> "true"]
                            ELSE NoBody]
  /\ \E nav \in {[response |-> ResponseOf(200), navThrew |-> FALSE, at |-> UrlA],
                 [response |-> NullResponse, navThrew |-> TRUE, at |-> AboutBlank]} :
       /\ local = [r \in Reqs |->
                     IF r = 1
                     THEN [NoLocals EXCEPT !.awaited = 1, !.browser = 1, !.context = 1,
                                           !.page = 1, !.response = nav.response,
                                           !.navThrew = nav.navThrew,
                                           !.finalUrl = nav.at,
                                           !.status = StatusOf(nav.response)]
                     ELSE NoLocals]
       /\ pageUrl = [p \in Reqs |-> IF p = 1 THEN nav.at ELSE EmptyStr]
  /\ resp = [r \in Reqs |-> NoResp]
  /\ openContexts = {1}
  /\ openPages = {1}
  /\ routed = {1}
  /\ trace = [r \in Reqs |->
                IF r = 1
                THEN <<"getBrowser", "newContext", "route", "newPage", "goto",
                       "waitForTimeout", "content">>
                ELSE <<>>]
  /\ network = [p \in Reqs |-> <<>>]

NextExtract == \E r \in Reqs : Content(r, ExtractDocs)

SpecExtract == InitExtract /\ [][NextExtract]_vars

-----------------------------------------------------------------------------
(* The handler with every pending call settling eventually                 *)

\* The bodies of the requests of the specification with fairness.
LiveBodies ==
  {[hasUrl |-> TRUE, url |-> RelativeRef, screenshot |-> FALSE,
    blockResources |-> "undefined"],
   [hasUrl |-> TRUE, url |-> UrlA, screenshot |-> TRUE,
    blockResources |-> "undefined"],
   [hasUrl |-> TRUE, url |-> UrlA, screenshot |-> FALSE,
    blockResources |-> "false"]}

NextLive ==
  \/ \E r \in Reqs : Receive(r, LiveBodies)
  \/ \E r \in Reqs : Validate(r)
  \/ \E i \in 1..Len(promises) : LaunchSettles(i)
  \/ \E r \in Reqs : AwaitBrowser(r)
  \/ \E r \in Reqs : NewContext(r)
  \/ \E r \in Reqs : Route(r)
  \/ \E r \in Reqs : NewPage(r)
  \/ \E r \in Reqs : Goto(r)
  \/ \E r \in Reqs : WaitForTimeout(r)
  \/ \E r \in Reqs : Content(r, {PlainDoc})
  \/ \E r \in Reqs : Screenshot(r)
  \/ \E r \in Reqs : PageClose(r)
  \/ \E r \in Reqs : ContextClose(r)

\* The step of request r that its pending await allows once it has settled.
Resumes(r) ==
  \/ Validate(r)
  \/ AwaitBrowser(r)
  \/ NewContext(r)
  \/ Route(r)
  \/ NewPage(r)
  \/ Goto(r)
  \/ WaitForTimeout(r)
  \/ Content(r, {PlainDoc})
  \/ Screenshot(r)
  \/ PageClose(r)
  \/ ContextClose(r)

\* Every launch settles, and every call a request awaits returns or throws.
Fairness ==
  /\ WF_vars(\E i \in 1..Len(promises) : LaunchSettles(i))
  /\ \A r \in Reqs : WF_vars(Resumes(r))

SpecLive == Init /\ [][NextLive]_vars /\ Fairness

-----------------------------------------------------------------------------
(* The page's requests: one request that has its browser and is suspended  *)
(* on newContext, followed until the settle wait is over, with the         *)
(* requests its page issues meanwhile.                                     *)

InitRoute ==
  /\ sagashi_browser = 1
  /\ promises = <<"fulfilled">>
  /\ pc = [r \in Reqs |-> IF r = 1 THEN "newContext" ELSE "idle"]
  /\ \E b \in {b \in Bodies : b.url = UrlA} :
       body = [r \in Reqs |-> IF r = 1 THEN b ELSE NoBody]
  /\ local = [r \in Reqs |-> IF r = 1
                             THEN [NoLocals EXCEPT !.awaited = 1, !.browser = 1]
                             ELSE NoLocals]
  /\ resp = [r \in Reqs |-> NoResp]
  /\ openContexts = {}
  /\ openPages = {}
  /\ routed = {}
  /\ pageUrl = [p \in Reqs |-> EmptyStr]
  /\ trace = [r \in Reqs |-> IF r = 1 THEN <<"getBrowser", "newContext">> ELSE <<>>]
  /\ network = [p \in Reqs |-> <<>>]

NextRoute ==
  \/ \E r \in Reqs : NewContext(r)
  \/ \E r \in Reqs : Route(r)
  \/ \E r \in Reqs : NewPage(r)
  \/ \E r \in Reqs : PageRequest(r)
  \/ \E r \in Reqs : Goto(r)
  \/ \E r \in Reqs : WaitForTimeout(r)

SpecRoute == InitRoute /\ [][NextRoute]_vars

-----------------------------------------------------------------------------
(* Properties of the request handler, checked under Spec *)

Done(r) == pc[r] = "done"

LastCall(r) == IF trace[r] = <<>> THEN "" ELSE trace[r][Len(trace[r])]

\* C1: every request that opened a browsing context has closed its page and
\* its context by the time POST has returned, on every exit path.
C1_CleanupOnEveryExit ==
  \A r \in Reqs :
    Done(r) /\ local[r].context # 0 =>
      /\ local[r].context \notin openContexts
      /\ local[r].page \notin openPages

\* C2: while no launch has failed, chromium.launch has been called at most
\* once, every getBrowser call returned the one promise kept in the global,
\* and every request that got a browser got the same handle.
C2_SingleLaunch ==
  (\A i \in 1..Len(promises) : promises[i] # "rejected") =>
    /\ Len(promises) <= 1
    /\ \A r \in Reqs : local[r].awaited \in {0, sagashi_browser}
    /\ \A r1, r2 \in Reqs :
         local[r1].browser # 0 /\ local[r2].browser # 0 =>
           local[r1].browser = local[r2].browser

C2_Witness ==
  \E r1, r2 \in Reqs :
    /\ r1 # r2
    /\ local[r1].browser # 0
    /\ local[r2].browser # 0
    /\ promises = <<"fulfilled">>

\* C3: a request awaiting a launch that failed is answered 500, and a
\* request that calls getBrowser after a launch has failed starts a new
\* launch.
C3_FailedLaunchNotPoisoning ==
  [][\A r \in Reqs :
       /\ (pc[r] = "getBrowser" /\ pc'[r] = "done" => resp'[r].code = 500)
       /\ (/\ pc[r] = "json" /\ pc'[r] = "getBrowser"
           /\ sagashi_browser # Undefined
           /\ promises[sagashi_browser] = "rejected"
           => Len(promises') = Len(promises) + 1)]_vars

InvalidUrl(b) == ~b.hasUrl \/ b.url = EmptyStr \/ ~IsAbsolute(b.url)

\* C4: a request whose url is missing, empty or not an absolute URL is
\* answered 400 and does no browser work: it never calls getBrowser or any
\* browser capability and holds no browser, context or page.
C4_InvalidUrlNoBrowserWork ==
  \A r \in Reqs :
    pc[r] \notin {"idle", "json"} /\ InvalidUrl(body[r]) =>
      /\ Done(r)
      /\ resp[r].code = 400
      /\ trace[r] = <<>>
      /\ local[r] = NoLocals
      /\ r \notin openContexts \cup openPages

C4_Witness ==
  \E r \in Reqs :
    /\ Done(r)
    /\ resp[r].code = 400
    /\ body[r].hasUrl
    /\ body[r].url = RelativeRef
    /\ sagashi_browser # Undefined
    /\ promises[sagashi_browser] = "fulfilled"

\* C5 as stated, where no later step of the request throws: if navigation
\* throws, the 200 response has status 0 and finalUrl equal to the requested
\* url.
C5_NavigationFailureKeepsUrl ==
  \A r \in Reqs :
    Done(r) /\ local[r].navThrew /\ resp[r].code = 200 =>
      /\ resp[r].result.status = 0
      /\ resp[r].result.finalUrl = body[r].url

LaterFailures ==
  {"waitForTimeout failed", "content failed", "parse failed", "screenshot failed",
   "page.close failed", "context.close failed"}

\* C5 as amended: if navigation throws, the error is swallowed; the request
\* is answered 200 unless a later step throws, and a 200 response has
\* status 0, url equal to the requested url and finalUrl equal to what
\* page.url() returns for the request's page.
C5_NavigationFailureDegrades ==
  \A r \in Reqs :
    Done(r) /\ local[r].navThrew =>
      \/ /\ resp[r].code = 200
         /\ resp[r].result.status = 0
         /\ resp[r].result.url = body[r].url
         /\ resp[r].result.finalUrl = pageUrl[local[r].page]
      \/ /\ resp[r].code = 500
         /\ resp[r].error \in LaterFailures

C5_Witness ==
  \E r \in Reqs :
    /\ Done(r)
    /\ local[r].navThrew
    /\ resp[r].code = 200
    /\ resp[r].result.status = 0
    /\ resp[r].result.finalUrl = AboutBlank

ScreenshotFailed(r) == Done(r) /\ LastCall(r) = "screenshot"

\* C6: screenshot capture is best-effort: a failed capture still yields a 200
\* response without the screenshot fields; no capture is attempted and the
\* fields are absent when the option is not set; both fields are present
\* when it is set and the capture succeeds.
C6_ScreenshotBestEffort ==
  \A r \in Reqs :
    /\ ScreenshotFailed(r) =>
         /\ resp[r].code = 200
         /\ resp[r].result.screenshot = "undefined"
         /\ resp[r].result.screenshotMime = "undefined"
    /\ resp[r].code = 200 /\ ~body[r].screenshot =>
         /\ \A k \in 1..Len(trace[r]) : trace[r][k] # "screenshot"
         /\ resp[r].result.screenshot = "undefined"
         /\ resp[r].result.screenshotMime = "undefined"
    /\ resp[r].code = 200 /\ body[r].screenshot =>
         /\ resp[r].result.screenshot = "base64"
         /\ resp[r].result.screenshotMime = "image/png"

-----------------------------------------------------------------------------
(* Properties of the extraction, checked under SpecExtract *)

\* Request r has built its result object (lines 123-146).
Extracted(r) == local[r].result.status # -1

\* The number of maximal runs of non-whitespace characters of a text.
TokenCount(text) ==
  Cardinality({i \in 1..Len(text) :
                 ~IsSpace(text[i]) /\ (i = 1 \/ IsSpace(text[i - 1]))})

\* rt is the least integer >= 1 with WordsPerMinute * rt >= wc.
IsReadingTime(rt, wc) ==
  /\ rt >= 1
  /\ 200 * rt >= wc
  /\ rt > 1 => 200 * (rt - 1) < wc

AnArticle == [present |-> TRUE, title |-> <<"A">>, textContent |-> <<"a", " ", "b">>]

\* The result of the same request for the same document with an article.
WithArticle(r) ==
  Result(body[r].url, local[r].finalUrl, local[r].status,
         [local[r].html EXCEPT !.article = AnArticle])

SameStructure(r) ==
  /\ WithArticle(r).links = local[r].result.links
  /\ WithArticle(r).headings = local[r].result.headings
  /\ WithArticle(r).images = local[r].result.images

FromBodyText(r) ==
  /\ local[r].result.wordCount = TokenCount(local[r].html.bodyText)
  /\ IsReadingTime(local[r].result.readingTimeMinutes, local[r].result.wordCount)

\* C7 as stated: when Readability returns null, article is null, title,
\* links, headings and images are what they would be with an article
\* present, and wordCount and readingTimeMinutes come from the body text.
C7_NullArticleSameFields ==
  \A r \in Reqs :
    Extracted(r) /\ ~local[r].html.article.present =>
      /\ local[r].result.article = NoArticle
      /\ WithArticle(r).title = local[r].result.title
      /\ SameStructure(r)
      /\ FromBodyText(r)

\* C7 as amended: when Readability returns null, article is null; title is
\* the trimmed text of the title element, which is what it would be with an
\* article present if the title element has text; links, headings and images
\* are what they would be with an article present; wordCount and
\* readingTimeMinutes come from the body text.
C7_NullArticleDegrades ==
  \A r \in Reqs :
    Extracted(r) /\ ~local[r].html.article.present =>
      /\ local[r].result.article = NoArticle
      /\ local[r].result.title = Trim(local[r].html.title)
      /\ local[r].html.title # EmptyStr => WithArticle(r).title = local[r].result.title
      /\ SameStructure(r)
      /\ FromBodyText(r)

C7_Witness ==
  \E r \in Reqs :
    /\ Extracted(r)
    /\ ~local[r].html.article.present
    /\ local[r].html.title = EmptyStr
    /\ local[r].result.title = EmptyStr
    /\ local[r].result.links # <<>>
    /\ local[r].result.headings # <<>>
    /\ local[r].result.images # <<>>
    /\ local[r].result.wordCount = 2

\* What a script text stands for in jsonLd: its parsed value, or the text.
LdEntry(text) == IF text \in JSONTexts THEN JSONParse(text) ELSE JSString(text)

FalsyValues ==
  {JSNull, [t |-> "boolean", v |-> "false"], [t |-> "number", v |-> "0"], JSString("")}

\* C8 as stated: jsonLd holds, in document order, the parsed value of every
\* script that is valid JSON and the raw text of every other non-empty
\* script; only empty scripts and null entries are dropped.
C8_JsonLdDropsOnlyEmptyOrNull ==
  \A r \in Reqs :
    Extracted(r) =>
      local[r].result.jsonLd =
        SelectSeq(MapSeq(local[r].html.scripts, LdEntry),
                  LAMBDA e : e # JSNull /\ e # JSString(""))

\* C8 as amended: jsonLd holds, in document order, the parsed value of every
\* script that is valid JSON and the raw text of every other non-empty
\* script, except the entries that are falsy: an empty script, and a script
\* whose JSON is null, false, 0 or the empty string.
C8_JsonLdDropsFalsy ==
  \A r \in Reqs :
    Extracted(r) =>
      local[r].result.jsonLd =
        SelectSeq(MapSeq(local[r].html.scripts, LdEntry),
                  LAMBDA e : e \notin FalsyValues)

C8_Witness ==
  \E r \in Reqs :
    /\ Extracted(r)
    /\ local[r].html.scripts = <<"false", "{bad">>
    /\ local[r].result.jsonLd = <<JSString("{bad")>>

\* The resolved, non-empty hrefs of r's document, in document order.
Hrefs0(r) ==
  SelectSeq(MapSeq(local[r].html.anchors, LAMBDA a : Resolve(a, local[r].finalUrl)),
            LAMBDA h : h # EmptyStr)

FirstIndex(arr, x) == Indices(arr, LAMBDA i : arr[i] = x)[1]

\* out is the first `cap` distinct elements of arr, in first-seen order.
IsFirstDistinct(out, arr, cap) ==
  /\ Len(out) <= cap
  /\ Cardinality(Range(out)) = Len(out)
  /\ Range(out) \subseteq Range(arr)
  /\ \A i \in 1..(Len(out) - 1) : FirstIndex(arr, out[i]) < FirstIndex(arr, out[i + 1])
  /\ IF Len(out) = cap /\ cap > 0
     THEN Range(out) = Range(SubSeq(arr, 1, FirstIndex(arr, out[Len(out)])))
     ELSE Range(out) = Range(arr)

\* C9: links has no duplicates, keeps the first-seen order of the resolved
\* hrefs and is the first 2000 distinct ones; images keeps document order
\* without deduplication and is the first 500 images.
C9_LinksUniqueCappedImagesCapped ==
  \A r \in Reqs :
    Extracted(r) =>
      /\ IsFirstDistinct(local[r].result.links, Hrefs0(r), 2000)
      /\ LET imgs == local[r].html.imgs
             images == local[r].result.images
         IN /\ Len(images) = IF Len(imgs) < 500 THEN Len(imgs) ELSE 500
            /\ \A k \in 1..Len(images) :
                 /\ images[k].src = Resolve(imgs[k].src, local[r].finalUrl)
                 /\ images[k].alt = imgs[k].alt

C9_Witness ==
  \E r \in Reqs :
    /\ Extracted(r)
    /\ Len(local[r].html.anchors) > 2002
    /\ local[r].html.anchors[1] = local[r].html.anchors[2]
    /\ Len(local[r].result.links) = 2000
    /\ Len(local[r].html.imgs) = 501
    /\ Len(local[r].result.images) = 500
    /\ local[r].result.images[2] = local[r].result.images[4]

\* C10: readingTimeMinutes = max(1, ceiling(wordCount / 200)): at least 1
\* for every word count, zero included, and 2 for 210 words.
C10_ReadingTime ==
  \A r \in Reqs :
    Extracted(r) =>
      /\ local[r].result.wordCount >= 0
      /\ IsReadingTime(local[r].result.readingTimeMinutes, local[r].result.wordCount)
      /\ local[r].result.wordCount = 0 => local[r].result.readingTimeMinutes = 1
      /\ local[r].result.wordCount = 210 => local[r].result.readingTimeMinutes = 2

C10_Witness ==
  \E r \in Reqs :
    /\ Extracted(r)
    /\ TokenCount(local[r].html.bodyText) = 210
    /\ local[r].result.wordCount = 210
    /\ local[r].result.readingTimeMinutes = 2

\* A text whose lines are non-empty, carry no leading or trailing
\* whitespace and are separated by exactly one blank line: it neither starts
\* nor ends with whitespace, and each newline has a newline on one side and
\* a non-whitespace character on the other.
IsNormalized(text) ==
  /\ text # EmptyStr => ~IsSpace(text[1]) /\ ~IsSpace(text[Len(text)])
  /\ \A i \in 1..Len(text) :
       text[i] = "\n" =>
         /\ 1 < i /\ i < Len(text)
         /\ \/ text[i - 1] = "\n" /\ ~IsSpace(text[i + 1])
            \/ text[i + 1] = "\n" /\ ~IsSpace(text[i - 1])

\* C11: text normalization is idempotent, and every normalized text has
\* only non-empty lines without leading or trailing whitespace, separated by
\* exactly one blank line.
C11_NormalizeIdempotent ==
  \A r \in Reqs :
    Extracted(r) /\ local[r].html.article.present =>
      LET t == local[r].html.article.textContent
          n == local[r].result.article.textContent
      IN /\ Normalize(n) = n
         /\ Normalize(Normalize(t)) = Normalize(t)
         /\ IsNormalized(n)

C11_Witness ==
  \E r \in Reqs :
    /\ Extracted(r)
    /\ local[r].html.article.textContent = <<" ", "a", "\n", "a">>
    /\ local[r].result.article.textContent = <<"a", "\n", "\n", "a">>

\* The text the word count is taken from: the normalized article text when
\* there is an article and that text is non-empty, the body's text otherwise.
ChosenText(r) ==
  LET article == local[r].html.article
  IN IF article.present /\ Normalize(article.textContent) # EmptyStr
       THEN Normalize(article.textContent)
       ELSE local[r].html.bodyText

\* C16: wordCount is the number of whitespace-delimited non-empty tokens of
\* the normalized article text when that text is non-empty, and of the
\* body's text otherwise; it is 0 exactly when the chosen text has no
\* non-whitespace character.
C16_WordCount ==
  \A r \in Reqs :
    Extracted(r) =>
      LET chosen == ChosenText(r)
      IN /\ local[r].result.wordCount = TokenCount(chosen)
         /\ local[r].result.wordCount = 0
              <=> \A i \in 1..Len(chosen) : IsSpace(chosen[i])

C16_Witness ==
  \E r \in Reqs :
    /\ Extracted(r)
    /\ local[r].html.article.present
    /\ local[r].html.article.textContent = <<" ", "\n">>
    /\ local[r].html.bodyText = <<"x", " ", "y">>
    /\ local[r].result.wordCount = 2

-----------------------------------------------------------------------------
(* Properties of the interception rule, checked under SpecRoute *)

\* C12: unless blockResources is false (true is the default), every request
\* of the page is intercepted and resolved exactly once, aborted if and only
\* if its resource type is image, media, font or stylesheet and continued
\* otherwise; when blockResources is false no rule is installed and no
\* request is intercepted or aborted.
C12_BlockResources ==
  \A r \in Reqs :
    local[r].page # 0 =>
      IF body[r].blockResources \in {"undefined", "true"}
      THEN /\ local[r].context \in routed
           /\ \A k \in 1..Len(network[local[r].page]) :
                LET q == network[local[r].page][k]
                IN /\ q.intercepted
                   /\ Len(q.calls) = 1
                   /\ q.calls[1] = "abort"
                        <=> q.type \in {"image", "media", "font", "stylesheet"}
                   /\ q.calls[1] = "continue"
                        <=> q.type \notin {"image", "media", "font", "stylesheet"}
      ELSE /\ local[r].context \notin routed
           /\ \A k \in 1..Len(network[local[r].page]) :
                LET q == network[local[r].page][k]
                IN ~q.intercepted /\ q.calls = <<>>

C12_Witness ==
  \E r \in Reqs :
    /\ body[r].blockResources = "undefined"
    /\ pc[r] = "content"
    /\ Len(network[local[r].page]) = 3
    /\ network[local[r].page][1] =
         [type |-> "document", intercepted |-> TRUE, calls |-> <<"continue">>]
    /\ network[local[r].page][2] =
         [type |-> "script", intercepted |-> TRUE, calls |-> <<"continue">>]
    /\ network[local[r].page][3] =
         [type |-> "image", intercepted |-> TRUE, calls |-> <<"abort">>]

-----------------------------------------------------------------------------
(* More properties of the request handler, checked under Spec *)

\* No two requests hold the same context or the same page.
OwnHandles ==
  \A r, q \in Reqs :
    r # q =>
      /\ local[r].context # 0 => local[r].context # local[q].context
      /\ local[r].page # 0 => local[r].page # local[q].page

\* The number of times request r has called a capability.
CallCount(r, capability) ==
  Cardinality({k \in 1..Len(trace[r]) : trace[r][k] = capability})

\* A step leaves alone the locals, the context and the page of every request
\* other than the one that takes it, and no request replaces the context or
\* the page it has.
IsolatedStep ==
  \A r \in Reqs :
    LET c == local[r].context
        p == local[r].page
    IN /\ c # 0 => local'[r].context = c
       /\ p # 0 => local'[r].page = p
       /\ pc'[r] = pc[r] =>
            /\ local'[r] = local[r]
            /\ c # 0 => /\ c \in openContexts' <=> c \in openContexts
                        /\ c \in routed' <=> c \in routed
            /\ p # 0 => /\ p \in openPages' <=> p \in openPages
                        /\ pageUrl'[p] = pageUrl[p]
                        /\ network'[p] = network[p]

\* C13: under any interleaving of requests sharing the browser, each request
\* creates one context and one page, which no other request holds, and every
\* step changes (opens, routes, navigates, closes) only the context and page
\* of the request that takes it; the result of a request is built from the
\* document and URL that request read.
C13_Isolation ==
  [][/\ OwnHandles /\ OwnHandles'
     /\ IsolatedStep
     /\ \A r \in Reqs :
          /\ CallCount(r, "newContext")' <= 1
          /\ CallCount(r, "newPage")' <= 1
          /\ resp'[r].code = 200 =>
               /\ resp'[r].result.links =
                    UniqueLinks(Links(local'[r].html, local'[r].finalUrl))
               /\ resp'[r].result.images = Images(local'[r].html, local'[r].finalUrl)
    ]_vars

C13_Witness ==
  /\ pc[1] = "pageClose" /\ pc[2] = "pageClose"
  /\ openContexts = {1, 2} /\ openPages = {1, 2}
  /\ local[1].html = PlainDoc /\ local[2].html = ArticleDoc
  /\ local[1].finalUrl = UrlA /\ local[2].finalUrl = Redirected(UrlA)
  /\ local[1].result.links # local[2].result.links
  /\ CallCount(1, "newContext") = 1 /\ CallCount(2, "newPage") = 1

\* C14: once the global holds a launch promise, no step clears or replaces
\* it, no further launch is made, a settled launch keeps its outcome (the
\* browser is never closed), and the only calls requests make are those of
\* lines 38-156, whatever the outcome of the launch or of any request.
C14_SessionHandleAppendOnly ==
  [][/\ sagashi_browser # Undefined =>
          /\ sagashi_browser' = sagashi_browser
          /\ Len(promises') = Len(promises)
          /\ promises[sagashi_browser] # "pending" => promises' = promises
     /\ \A r \in Reqs :
          Range(trace'[r]) \subseteq
            {"getBrowser", "newContext", "route", "newPage", "goto",
             "waitForTimeout", "content", "screenshot", "pageClose",
             "contextClose"}
    ]_vars

C14_Witness ==
  /\ sagashi_browser = 1
  /\ promises = <<"rejected">>
  /\ resp[1].code = 500 /\ resp[1].error = "launch failed"
  /\ local[2].awaited = 1 /\ pc[2] = "getBrowser"
  /\ trace[1] = <<"getBrowser">>

\* The calls of a request with body b that runs to its 200 response, in the
\* order of lines 38-156.
Expected(b) ==
  <<"getBrowser", "newContext">>
  \o (IF b.blockResources = "false" THEN <<>> ELSE <<"route">>)
  \o <<"newPage", "goto", "waitForTimeout", "content">>
  \o (IF b.screenshot THEN <<"screenshot">> ELSE <<>>)
  \o <<"pageClose", "contextClose">>

IsPrefix(s, t) == Len(s) <= Len(t) /\ s = SubSeq(t, 1, Len(s))

\* C15: the calls of every request are an initial part of: session
\* acquired, context opened, rule installed (if enabled), page opened,
\* navigation, settle delay, markup captured, optional screenshot, page
\* closed, context closed; the 200 response is returned after all of them;
\* the final URL and status are captured after the settle delay and the
\* extraction after the markup; the settle delay is applied whether the
\* navigation succeeded or failed; and the screenshot is taken while the
\* page and the context are open.
C15_StepOrder ==
  \A r \in Reqs :
    /\ IsPrefix(trace[r], Expected(body[r]))
    /\ resp[r].code = 200 => trace[r] = Expected(body[r])
    /\ trace[r] = Expected(body[r]) /\ Done(r) => resp[r].code \in {200, 500}
    /\ local[r].status # -1 => LastCall(r) \notin {"goto", "waitForTimeout"}
                               /\ CallCount(r, "waitForTimeout") = 1
    /\ local[r].result.status # -1 => CallCount(r, "content") = 1
    /\ local[r].navThrew \/ ~local[r].response.isNull =>
         CallCount(r, "waitForTimeout") = 1
    /\ pc[r] = "screenshot" =>
         /\ local[r].page \in openPages
         /\ local[r].context \in openContexts
    /\ local[r].result.screenshot = "base64" =>
         /\ CallCount(r, "screenshot") = 1
         /\ pc[r] = "pageClose" =>
              local[r].page \in openPages /\ local[r].context \in openContexts

C15_Witness ==
  \E r \in Reqs :
    /\ resp[r].code = 200
    /\ resp[r].result.screenshot = "base64"
    /\ local[r].navThrew
    /\ trace[r] = <<"getBrowser", "newContext", "newPage", "goto", "waitForTimeout",
                    "content", "screenshot", "pageClose", "contextClose">>

-----------------------------------------------------------------------------
(* Termination, checked under SpecLive *)

\* The messages of the exceptions the catch clause answers with 500.
Failures ==
  {"launch failed", "newContext failed", "route failed", "newPage failed",
   "waitForTimeout failed", "content failed", "parse failed",
   "screenshot failed", "page.close failed", "context.close failed"}

\* C17: if every pending call eventually returns or throws, every request
\* POST is called with eventually ends with a response; a request has ended
\* exactly when it has its response, which is set once and is 400 exactly
\* for a missing or invalid url, 500 with the message of a failed launch or
\* of a thrown exception, and 200 otherwise, after the context was closed.
C17_OneResponse ==
  /\ \A r \in Reqs : pc[r] = "json" ~> Done(r) /\ resp[r].code \in {200, 400, 500}
  /\ [](\A r \in Reqs :
          /\ Done(r) <=> resp[r].code \in {200, 400, 500}
          /\ resp[r].code = 400 <=> Done(r) /\ InvalidUrl(body[r])
          /\ resp[r].code = 500 => resp[r].error \in Failures
          /\ resp[r].code = 200 => LastCall(r) = "contextClose")
  /\ [][\A r \in Reqs : resp[r].code # 0 => resp'[r] = resp[r] /\ Done(r)']_vars

C17_Witness ==
  /\ Done(1) /\ Done(2)
  /\ resp[1].code = 400
  /\ resp[2].code = 500 /\ resp[2].error = "screenshot failed"

====
